---- MODULE Spec2Model ----
(***************************************************************************)
(* Model of the correction passes of pybind11_stubgen/parser/mixins/fix.py *)
(* and of pybind11_stubgen/typing_ext.py.                                  *)
(*                                                                         *)
(* A Python str is a sequence of one-character strings, so that            *)
(* capitalisation, splitting on ".", startswith and sorting are computed.  *)
(* An Identifier is such a str, a QualifiedName a sequence of Identifiers. *)
(* A value that may be None is a record with a "kind" field.               *)
(***************************************************************************)
EXTENDS Integers, Sequences, FiniteSets, TLC

VARIABLES
    host,            \* the live environment: builtins, importable modules, attributes
    extra_imports,   \* FixMissingImports.__extra_imports
    current_module,  \* FixMissingImports.__current_module (a module object or None)
    current_class,   \* FixMissingImports.__current_class (a class object or None)
    strip_module,    \* FixCurrentModulePrefixInTypeNames.__current_module (a path)
    errors,          \* the diagnostics reported through report_error, in order
    stack,           \* the open handle_module / handle_class calls, outermost first
    finished,        \* the Module results returned so far: path -> import set
    chain,           \* the passes composed for this run, innermost first
    call             \* the hook call that returned last: its arguments and result

vars == <<host, extra_imports, current_module, current_class, strip_module,
          errors, stack, finished, chain, call>>

\* ------------------------------------------------------------------ bounds

\* Longest qualified name handed to the resolver.
MaxNameLen == 3

\* Deepest nesting of open handle_module / handle_class calls.
MaxDepth == 3

\* Most diagnostics reported in one traversal.
MaxErrors == 1

\* Most passes composed into one parse_annotation_str chain.
MaxChain == 3

\* Most arguments of a method, getter or setter.
MaxArgs == 2

\* ------------------------------------------------------------------ str

NoneV == [kind |-> "None"]

Lower == <<"a","b","c","d","e","f","g","h","i","j","k","l","m",
           "n","o","p","q","r","s","t","u","v","w","x","y","z">>

UpperCase == <<"A","B","C","D","E","F","G","H","I","J","K","L","M",
               "N","O","P","Q","R","S","T","U","V","W","X","Y","Z">>

Digits == <<"0","1","2","3","4","5","6","7","8","9">>

\* The characters of the model in code point order (what str comparison uses).
CodePoints ==
    <<" ", "'", "(", ")", ",", "-", ".">> \o Digits \o UpperCase
        \o <<"[", "]", "_">> \o Lower

Ord(c) == CHOOSE i \in 1..Len(CodePoints) : CodePoints[i] = c

\* str.upper() of one character.
Upper(c) ==
    IF \E i \in 1..Len(Lower) : Lower[i] = c
      THEN UpperCase[CHOOSE i \in 1..Len(Lower) : Lower[i] = c]
      ELSE c

\* s[n:]
Drop(s, n) == IF n >= Len(s) THEN <<>> ELSE SubSeq(s, n + 1, Len(s))

\* s[:n]
Take(s, n) == IF n >= Len(s) THEN s ELSE SubSeq(s, 1, n)

\* s.startswith(p)
StartsWith(s, p) == Len(s) >= Len(p) /\ Take(s, Len(p)) = p

\* s.endswith(p)
EndsWith(s, p) == Len(s) >= Len(p) /\ Drop(s, Len(s) - Len(p)) = p

\* s.split(sep) for a one-character separator: always at least one part.
RECURSIVE Split(_, _)
Split(s, sep) ==
    IF \A i \in 1..Len(s) : s[i] # sep
      THEN <<s>>
      ELSE LET i == CHOOSE k \in 1..Len(s) :
                        s[k] = sep /\ \A j \in 1..(k - 1) : s[j] # sep
           IN  <<Take(s, i - 1)>> \o Split(Drop(s, i), sep)

\* sep.join(parts)
RECURSIVE Join(_, _)
Join(parts, sep) ==
    IF Len(parts) = 0 THEN <<>>
    ELSE IF Len(parts) = 1 THEN parts[1]
    ELSE parts[1] \o sep \o Join(Tail(parts), sep)

\* a < b for two str (lexicographic on code points).
RECURSIVE StrLess(_, _)
StrLess(a, b) ==
    IF Len(b) = 0 THEN FALSE
    ELSE IF Len(a) = 0 THEN TRUE
    ELSE IF a[1] # b[1] THEN Ord(a[1]) < Ord(b[1])
    ELSE StrLess(Tail(a), Tail(b))

\* ------------------------------------------------------------------ names

\* str(QualifiedName): the segments joined by ".".
QualifiedName_str(name) == Join(name, <<".">>)

\* QualifiedName.from_str: the text split on ".".
QualifiedName_from_str(s) == Split(s, ".")

\* QualifiedName.parent: the name without its last segment (empty stays empty).
QualifiedName_parent(name) == Take(name, Len(name) - 1)

id_a == <<"a">>
id_b == <<"b">>
id_c == <<"c">>
id_int == <<"i","n","t">>
id_self == <<"s","e","l","f">>
id_typing == <<"t","y","p","i","n","g">>
id_m == <<"m">>
id_s == <<"s">>
id_x == <<"x">>
id_n == <<"n">>
id_numpy == <<"n","u","m","p","y">>
id_ndarray == <<"n","d","a","r","r","a","y">>
id_pybind11_stubgen == <<"p","y","b","i","n","d","1","1","_","s","t","u","b","g","e","n">>
id_typing_ext == <<"t","y","p","i","n","g","_","e","x","t">>
id_typing_extensions == <<"t","y","p","i","n","g","_","e","x","t","e","n","s","i","o","n","s">>
id_FixedSize == <<"F","i","x","e","d","S","i","z","e">>
id_List == <<"L","i","s","t">>
id_list == <<"l","i","s","t">>
id_iterator == <<"i","t","e","r","a","t","o","r">>
id_Iterator == <<"I","t","e","r","a","t","o","r">>
id_buffer == <<"b","u","f","f","e","r">>
id_Buffer == <<"B","u","f","f","e","r">>
id_str == <<"s","t","r">>
id_all == <<"_","_","a","l","l","_","_">>
id_f == <<"f">>
id_A == <<"A">>
id_B == <<"B">>
id_y == <<"y">>
id_z == <<"z">>
id_Z == <<"Z">>
id_private == <<"_","p">>
id_impl == <<"_","i","m","p","l">>
id_sub == <<"s","u","b">>
id_float32 == <<"f","l","o","a","t","3","2">>

RECURSIVE SeqsUpTo(_, _)
SeqsUpTo(S, n) ==
    IF n = 0 THEN {<<>>}
    ELSE LET shorter == SeqsUpTo(S, n - 1)
         IN  shorter \cup {Append(s, x) : s \in shorter, x \in S}

\* ------------------------------------------------------------------ host

\* builtins: the names hasattr(builtins, .) finds.
\* modules: str(name) -> the object importlib.import_module returns; a name
\*          outside its domain raises ModuleNotFoundError.
\* attrs:   <<object, attribute>> -> the object getattr returns; a pair
\*          outside its domain has hasattr false.
hasattr(obj, part) == <<obj, part>> \in DOMAIN host.attrs

getattr(obj, part) == host.attrs[<<obj, part>>]

import_ok(name) == QualifiedName_str(name) \in DOMAIN host.modules

import_module(name) == host.modules[QualifiedName_str(name)]

Obj(id) == [kind |-> "object", id |-> id]

\* The hosts of the resolver runs.  Importing a.b imports a first and binds
\* the attribute b of a, which the package may rebind to another object (a
\* class b re-exported by a/__init__.py).
ResolveHosts ==
    { [builtins |-> {id_int},
       modules  |-> [s \in {QualifiedName_str(n) : n \in mods} |->
                        IF s = QualifiedName_str(<<id_a>>) THEN <<"mod_a">> ELSE <<"mod_ab">>],
       attrs    |-> [p \in edges \cup {<<<<"cur_mod">>, id_b>>, <<<<"cur_cls">>, id_c>>} |->
                        IF p = <<<<"mod_a">>, id_b>> THEN ab
                        ELSE <<"leaf">>]] :
        mods \in {{}, {<<id_a>>}, {<<id_a>>, <<id_a, id_b>>}},
        ab \in {<<"mod_ab">>, <<"cls">>},
        edges \in SUBSET {<<<<"mod_a">>, id_b>>, <<<<"mod_a">>, id_c>>,
                          <<<<"mod_ab">>, id_c>>, <<<<"cls">>, id_c>>} }

HostOK(h) ==
    QualifiedName_str(<<id_a, id_b>>) \in DOMAIN h.modules
        => <<<<"mod_a">>, id_b>> \in DOMAIN h.attrs

\* ------------------------------------------------------------------ resolver

Import(name, origin) == [name |-> name, origin |-> origin]

NameResolutionError(name) == [error |-> "NameResolutionError", name |-> name]

Some(name) == [kind |-> "QualifiedName", name |-> name]

\* FixMissingImports._is_module
_is_module(name) == import_ok(name)

\* The loop of _is_accessible over relative_path.
RECURSIVE _is_accessible_loop(_, _)
_is_accessible_loop(parent, relative_path) ==
    IF Len(relative_path) = 0 THEN TRUE
    ELSE IF ~hasattr(parent, Head(relative_path)) THEN FALSE
    ELSE _is_accessible_loop(getattr(parent, Head(relative_path)), Tail(relative_path))

\* FixMissingImports._is_accessible
_is_accessible(name, from_module) ==
    IF ~import_ok(from_module) THEN FALSE
    ELSE _is_accessible_loop(import_module(from_module), Drop(name, Len(from_module)))

\* The while loop of _get_parent_module with `continue` in place of the
\* `return None`: a prefix failing the attribute check is skipped.
RECURSIVE _get_parent_module_skipping(_, _)
_get_parent_module_skipping(name, parent) ==
    IF Len(parent) = 0 THEN NoneV
    ELSE IF _is_module(parent) /\ _is_accessible(name, parent) THEN Some(parent)
    ELSE _get_parent_module_skipping(name, QualifiedName_parent(parent))

\* The while loop of _get_parent_module, entered with `parent`.
RECURSIVE _get_parent_module_loop(_, _)
_get_parent_module_loop(name, parent) ==
    IF Len(parent) = 0 THEN NoneV
    ELSE IF _is_module(parent)
      THEN IF ~_is_accessible(name, parent) THEN NoneV ELSE Some(parent)
    ELSE _get_parent_module_loop(name, QualifiedName_parent(parent))

\* FixMissingImports._get_parent_module
_get_parent_module(name) == _get_parent_module_loop(name, QualifiedName_parent(name))

\* The three early returns of _add_import: name[0] is a builtin, an attribute
\* of the current class or an attribute of the current module.
locally_visible(name) ==
    /\ Len(name) > 0
    /\ \/ name[1] \in host.builtins
       \/ current_class # NoneV /\ hasattr(current_class.id, name[1])
       \/ current_module # NoneV /\ hasattr(current_module.id, name[1])

\* _add_import that registers the name's parent without consulting the host.
_add_import_unchecked(name, errs, imps) ==
    IF locally_visible(name) THEN [errors |-> errs, extra_imports |-> imps]
    ELSE [errors |-> errs,
          extra_imports |-> imps \cup {Import(NoneV, QualifiedName_parent(name))}]

\* FixMissingImports._add_import: the error list and the accumulator after
\* the call, from their values before it.
_add_import(name, errs, imps) ==
    IF locally_visible(name) THEN [errors |-> errs, extra_imports |-> imps]
    ELSE LET module_name == _get_parent_module(name)
         IN  IF module_name = NoneV
               THEN [errors |-> Append(errs, NameResolutionError(name)),
                     extra_imports |-> imps]
               ELSE [errors |-> errs,
                     extra_imports |-> imps \cup {Import(NoneV, module_name.name)}]

\* ------------------------------------------------------------------ declarations

ResolvedType(name, parameters) ==
    [kind |-> "ResolvedType", name |-> name, parameters |-> parameters]

Value(repr) == [kind |-> "Value", repr |-> repr]

InvalidExpression(text) == [kind |-> "InvalidExpression", text |-> text]

List(items) == [kind |-> "list", items |-> items]

Alias(name, origin) == [kind |-> "Alias", name |-> name, origin |-> origin]

Attribute(name, value, annotation) ==
    [kind |-> "Attribute", name |-> name, value |-> value, annotation |-> annotation]

\* What a hook hands back: its return value and the pass's state after it.
Returned(result, st) ==
    [result |-> result, errors |-> st.errors, extra_imports |-> st.extra_imports]

Unchanged(errs, imps) == [errors |-> errs, extra_imports |-> imps]

\* ------------------------------------------------------------------ FixMissingImports hooks
\* `result` is what super() returned.

FixMissingImports_handle_alias(result, errs, imps) ==
    IF result = NoneV THEN Returned(NoneV, Unchanged(errs, imps))
    ELSE Returned(result, _add_import(result.origin, errs, imps))

FixMissingImports_handle_attribute(result, errs, imps) ==
    IF result = NoneV THEN Returned(NoneV, Unchanged(errs, imps))
    ELSE IF result.annotation.kind = "ResolvedType"
      THEN Returned(result, _add_import(result.annotation.name, errs, imps))
    ELSE Returned(result, Unchanged(errs, imps))

\* inspect.ismodule(type): the argument is the builtin `type`, never a module.
ismodule_type == FALSE

FixMissingImports_handle_type(result, errs, imps) ==
    IF ~ismodule_type
      THEN Returned(Some(result), _add_import(result, errs, imps))
      ELSE Returned(Some(result), Unchanged(errs, imps))

\* parse_annotation_str without the isinstance test: the text of an
\* InvalidExpression is resolved as if it were a name.
FixMissingImports_parse_annotation_str_any(result, errs, imps) ==
    IF result.kind = "ResolvedType"
      THEN Returned(result, _add_import(result.name, errs, imps))
    ELSE IF result.kind = "InvalidExpression"
      THEN Returned(result, _add_import(QualifiedName_from_str(result.text), errs, imps))
    ELSE Returned(result, Unchanged(errs, imps))

FixMissingImports_parse_annotation_str(result, errs, imps) ==
    IF result.kind = "ResolvedType"
      THEN Returned(result, _add_import(result.name, errs, imps))
      ELSE Returned(result, Unchanged(errs, imps))

\* ------------------------------------------------------------------ resolver runs
\* One resolver call in a freshly constructed FixMissingImports whose
\* context an enclosing handle_module / handle_class has set.

ResolveNames ==
    SeqsUpTo({id_a, id_b, id_c}, MaxNameLen) \cup {<<id_int>>, <<id_int, id_a>>}

ResolveContexts ==
    { [module |-> NoneV, class |-> NoneV],
      [module |-> Obj(<<"cur_mod">>), class |-> NoneV],
      [module |-> Obj(<<"cur_mod">>), class |-> Obj(<<"cur_cls">>)] }

InitResolve ==
    /\ host \in {h \in ResolveHosts : HostOK(h)}
    /\ \E ctx \in ResolveContexts :
           current_module = ctx.module /\ current_class = ctx.class
    /\ extra_imports = {}
    /\ errors = <<>>
    /\ strip_module = <<>>
    /\ stack = <<>>
    /\ finished = {}
    /\ chain = <<>>
    /\ call = [op |-> "init"]

\* The frame of a member hook: only the error list, the accumulator and the
\* record of the call change.
Hook(op, name, inner, r) ==
    /\ errors' = r.errors
    /\ extra_imports' = r.extra_imports
    /\ call' = [op |-> op, name |-> name, inner |-> inner, result |-> r.result,
                pre_errors |-> errors, pre_imports |-> extra_imports]
    /\ UNCHANGED <<host, current_module, current_class, strip_module,
                   stack, finished, chain>>

CallGetParentModule ==
    /\ call.op = "init"
    /\ \E name \in ResolveNames :
           Hook("_get_parent_module", name, Some(name),
                Returned(_get_parent_module(name), Unchanged(errors, extra_imports)))

CallAddImport ==
    /\ call.op = "init"
    /\ \E name \in ResolveNames :
           Hook("_add_import", name, Some(name),
                Returned(NoneV, _add_import(name, errors, extra_imports)))

CallHandleAlias ==
    /\ call.op = "init"
    /\ \/ Hook("handle_alias", <<>>, NoneV,
               FixMissingImports_handle_alias(NoneV, errors, extra_imports))
       \/ \E name \in ResolveNames :
              LET inner == Alias(id_a, name)
              IN  Hook("handle_alias", name, inner,
                       FixMissingImports_handle_alias(inner, errors, extra_imports))

CallHandleAttribute ==
    /\ call.op = "init"
    /\ \/ \E inner \in {NoneV,
                        Attribute(id_a, NoneV, NoneV),
                        Attribute(id_a, NoneV, Value(<<"1">>)),
                        Attribute(id_a, NoneV, InvalidExpression(<<"(">>))} :
              Hook("handle_attribute", <<>>, inner,
                   FixMissingImports_handle_attribute(inner, errors, extra_imports))
       \/ \E name \in ResolveNames \ {<<>>} :
              LET inner == Attribute(id_a, NoneV, ResolvedType(name, NoneV))
              IN  Hook("handle_attribute", name, inner,
                       FixMissingImports_handle_attribute(inner, errors, extra_imports))

CallHandleType ==
    /\ call.op = "init"
    /\ \E name \in ResolveNames :
           Hook("handle_type", name, Some(name),
                FixMissingImports_handle_type(name, errors, extra_imports))

CallParseAnnotationStr ==
    /\ call.op = "init"
    /\ \/ \E inner \in {Value(<<"1">>), InvalidExpression(<<"(">>)} :
              Hook("parse_annotation_str", <<>>, inner,
                   FixMissingImports_parse_annotation_str(inner, errors, extra_imports))
       \/ \E name \in ResolveNames \ {<<>>} :
              LET inner == ResolvedType(name, NoneV)
              IN  Hook("parse_annotation_str", name, inner,
                       FixMissingImports_parse_annotation_str(inner, errors, extra_imports))

NextResolve ==
    \/ CallGetParentModule
    \/ CallAddImport
    \/ CallHandleAlias
    \/ CallHandleAttribute
    \/ CallHandleType
    \/ CallParseAnnotationStr

SpecResolve == InitResolve /\ [][NextResolve]_vars

\* ------------------------------------------------------------------ claims C1-C3

\* The lengths of the proper prefixes of `name` that import as a module.
ImportablePrefixes(name) ==
    {k \in 1..(Len(name) - 1) : import_ok(Take(name, k))}

\* Those of them from which every later segment is reached by attribute lookup.
VerifiedPrefixes(name) ==
    {k \in ImportablePrefixes(name) :
        LET Reach[i \in k..Len(name)] ==
                IF i = k THEN {import_module(Take(name, k))}
                ELSE {host.attrs[p] : p \in {q \in DOMAIN host.attrs :
                                              q[1] \in Reach[i - 1] /\ q[2] = name[i]}}
        IN  Reach[Len(name)] # {}}

Longest(S) == CHOOSE k \in S : \A j \in S : j <= k

\* The first segment of `name` is neither a builtin nor an attribute of the
\* current class or module.
NotLocallyVisible(name) ==
    /\ name[1] \notin host.builtins
    /\ current_class = NoneV \/ <<current_class.id, name[1]>> \notin DOMAIN host.attrs
    /\ current_module = NoneV \/ <<current_module.id, name[1]>> \notin DOMAIN host.attrs

\* C1 as stated: for a non-empty name _get_parent_module returns the longest
\* proper prefix that is importable and attribute-verified, skipping importable
\* prefixes that fail the attribute check, and none only when there is no such
\* prefix.
C1_FirstVerifiedPrefix ==
    (call.op = "_get_parent_module" /\ Len(call.name) > 0) =>
        call.result = IF VerifiedPrefixes(call.name) = {} THEN NoneV
                      ELSE Some(Take(call.name, Longest(VerifiedPrefixes(call.name))))

\* C1 amended: for a non-empty name _get_parent_module returns the longest
\* importable proper prefix when every later segment is reachable from it by
\* attribute lookup, and none otherwise: when no proper prefix is importable,
\* and also when the longest importable prefix fails the attribute check
\* (shorter prefixes are then not tried).
C1_LongestImportablePrefix ==
    (call.op = "_get_parent_module" /\ Len(call.name) > 0) =>
        call.result =
            IF ImportablePrefixes(call.name) = {} THEN NoneV
            ELSE LET k == Longest(ImportablePrefixes(call.name))
                 IN  IF k \in VerifiedPrefixes(call.name)
                       THEN Some(Take(call.name, k)) ELSE NoneV

\* C1's case: the longest importable prefix fails the attribute check while a
\* shorter prefix passes both, and the call has returned none.
C1_Witness ==
    /\ call.op = "_get_parent_module"
    /\ ImportablePrefixes(call.name) # {}
    /\ Longest(ImportablePrefixes(call.name)) \notin VerifiedPrefixes(call.name)
    /\ VerifiedPrefixes(call.name) # {}
    /\ call.result = NoneV

\* The name a resolver hook hands to _add_import, if any.
HookName(c) ==
    CASE c.op = "handle_alias" ->
             IF c.inner = NoneV THEN NoneV ELSE Some(c.inner.origin)
      [] c.op = "handle_attribute" ->
             IF c.inner = NoneV THEN NoneV
             ELSE IF c.inner.annotation.kind = "ResolvedType"
               THEN Some(c.inner.annotation.name) ELSE NoneV
      [] c.op = "handle_type" -> c.inner
      [] c.op = "parse_annotation_str" ->
             IF c.inner.kind = "ResolvedType" THEN Some(c.inner.name) ELSE NoneV
      [] OTHER -> NoneV

Unresolvable(name) ==
    Len(name) > 0 /\ NotLocallyVisible(name) /\ VerifiedPrefixes(name) = {}

\* C2: a resolver hook that meets a non-empty name that is not locally
\* visible and has no importable, attribute-verified proper prefix reports
\* exactly one NameResolutionError naming it, adds no import and returns the
\* inner result unchanged.
C2_UnresolvedReportedOnce ==
    (HookName(call) # NoneV /\ Unresolvable(HookName(call).name)) =>
        /\ errors = Append(call.pre_errors, NameResolutionError(HookName(call).name))
        /\ extra_imports = call.pre_imports
        /\ call.result = call.inner

\* C2's case: parse_annotation_str has met a three-segment unresolvable name
\* whose first segment does import.
C2_Witness ==
    /\ call.op = "parse_annotation_str"
    /\ HookName(call) # NoneV
    /\ Unresolvable(HookName(call).name)
    /\ Len(HookName(call).name) = MaxNameLen
    /\ import_ok(<<HookName(call).name[1]>>)
    /\ Len(errors) = 1

\* C3 as stated: _add_import of the empty name reports no diagnostic and
\* registers no import.
C3_EmptyNameNoEffect ==
    (call.op = "_add_import" /\ call.name = <<>>) =>
        errors = call.pre_errors /\ extra_imports = call.pre_imports

\* ------------------------------------------------------------------ scopes
\* handle_module and handle_class are re-entered through super(): each is
\* modelled by the part before the super() call (enter) and the part after
\* it (exit), with the locals of the open calls on `stack`.

\* FixMissingImports.handle_module up to the super() call.
FixMissingImports_handle_module_enter(module, imps, cur_module) ==
    [old_imports |-> imps, old_module |-> cur_module,
     extra_imports |-> {}, current_module |-> module]

\* handle_module whose accumulator is merged into the caller's on return.
FixMissingImports_handle_module_leaking(frame, result, imps) ==
    [result |-> IF result = NoneV THEN NoneV
                ELSE [result EXCEPT !.imports = result.imports \cup imps],
     extra_imports |-> frame.old_imports \cup imps,
     current_module |-> frame.old_module]

\* FixMissingImports.handle_module after the super() call returned `result`.
FixMissingImports_handle_module_exit(frame, result, imps) ==
    [result |-> IF result = NoneV THEN NoneV
                ELSE [result EXCEPT !.imports = result.imports \cup imps],
     extra_imports |-> frame.old_imports,
     current_module |-> frame.old_module]

\* FixCurrentModulePrefixInTypeNames.handle_module up to the super() call.
FixCurrentModulePrefixInTypeNames_handle_module_enter(path, cur_path) ==
    [tmp |-> cur_path, current_module |-> path]

\* FixCurrentModulePrefixInTypeNames.handle_module after the super() call.
FixCurrentModulePrefixInTypeNames_handle_module_exit(frame) == frame.tmp

\* FixMissingImports.handle_class up to the super() call.
FixMissingImports_handle_class_enter(class_, cur_class) ==
    [old_class |-> cur_class, current_class |-> class_]

\* handle_class that clears the current class on return.
FixMissingImports_handle_class_clearing(frame) == NoneV

\* FixMissingImports.handle_class after the super() call.
FixMissingImports_handle_class_exit(frame) == frame.old_class

\* FixMissingImports.handle_import
FixMissingImports_handle_import(result, errs, imps) ==
    IF result = NoneV THEN Returned(NoneV, Unchanged(errs, imps))
    ELSE Returned(result, Unchanged(errs, imps \cup {result}))

\* FixCurrentModulePrefixInTypeNames._strip_current_module
_strip_current_module(name) ==
    IF Take(name, Len(strip_module)) = strip_module
      THEN Drop(name, Len(strip_module))
      ELSE name

\* FixCurrentModulePrefixInTypeNames.handle_type
FixCurrentModulePrefixInTypeNames_handle_type(result) ==
    Some(_strip_current_module(result))

\* Module as the innermost pass returns it; only its import set is modelled.
Module(path, imports) == [kind |-> "Module", path |-> path, imports |-> imports]

\* ------------------------------------------------------------------ traversal runs
\* One traversal of a module m whose sub-modules nest as m.s, m.s.s, ...,
\* with classes nested in modules and in classes.

ScopeHost ==
    [builtins |-> {id_int},
     modules  |-> [s \in {QualifiedName_str(<<id_a>>), QualifiedName_str(<<id_a, id_b>>)} |->
                      IF s = QualifiedName_str(<<id_a>>) THEN <<"mod_a">> ELSE <<"mod_ab">>],
     attrs    |-> [p \in {<<<<"mod_a">>, id_b>>, <<<<"mod_a">>, id_c>>,
                          <<<<"mod_ab">>, id_c>>, <<<<"cls_C">>, id_b>>} |->
                      IF p = <<<<"mod_a">>, id_b>> THEN <<"mod_ab">> ELSE <<"leaf">>]]

\* Names met by member hooks: one resolved by `import a`, one unresolvable.
ScopeNames == {<<id_a, id_c>>, <<id_c, id_c>>}

\* Names handed to the prefix-stripping pass.
StripNames == {<<id_m, id_x>>, <<id_m, id_s, id_x>>}

\* The class visited next: C in a module, D nested in C, C nested in D, ...
NextClass(top) ==
    IF top.kind = "class" THEN
        IF top.class_ = Obj(<<"cls_C">>) THEN Obj(<<"cls_D">>) ELSE Obj(<<"cls_C">>)
    ELSE Obj(<<"cls_C">>)

InitScope ==
    /\ host = ScopeHost
    /\ current_module = NoneV
    /\ current_class = NoneV
    /\ extra_imports = {}
    /\ errors = <<>>
    /\ strip_module = <<>>
    /\ stack = <<>>
    /\ finished = {}
    /\ chain = <<>>
    /\ call = [op |-> "init"]

Top == stack[Len(stack)]

\* The context as the passes hold it.
Context == [module |-> current_module, class |-> current_class, strip |-> strip_module]

\* The module objects the traversal may enter next: the root, or the
\* sub-module of the module whose members are being visited.
NextModulePath ==
    IF stack = <<>> THEN <<id_m>> ELSE Append(Top.path, id_s)

EnterModule ==
    /\ Len(stack) < MaxDepth
    /\ IF stack = <<>> THEN TRUE ELSE Top.kind = "module"
    /\ \A f \in finished : f.path # NextModulePath
    /\ LET path == NextModulePath
           module == Obj(QualifiedName_str(path))
           fmi == FixMissingImports_handle_module_enter(module, extra_imports, current_module)
           fcm == FixCurrentModulePrefixInTypeNames_handle_module_enter(path, strip_module)
       IN  /\ stack' = Append(stack, [kind |-> "module", path |-> path,
                                      old_imports |-> fmi.old_imports,
                                      old_module |-> fmi.old_module,
                                      tmp |-> fcm.tmp,
                                      entry |-> Context,
                                      inner_imports |-> {},
                                      registered |-> {}])
           /\ extra_imports' = fmi.extra_imports
           /\ current_module' = fmi.current_module
           /\ strip_module' = fcm.current_module
           /\ call' = [op |-> "enter_module", path |-> path]
    /\ UNCHANGED <<host, current_class, errors, finished, chain>>

ExitModule ==
    /\ stack # <<>>
    /\ Top.kind = "module"
    /\ \E inner \in {NoneV, Module(Top.path, Top.inner_imports)} :
           LET fmi == FixMissingImports_handle_module_exit(Top, inner, extra_imports)
           IN  /\ extra_imports' = fmi.extra_imports
               /\ current_module' = fmi.current_module
               /\ strip_module' = FixCurrentModulePrefixInTypeNames_handle_module_exit(Top)
               /\ finished' = finished \cup {[path |-> Top.path, result |-> fmi.result,
                                               registered |-> Top.registered]}
               /\ call' = [op |-> "handle_module", path |-> Top.path,
                           result |-> fmi.result, entry |-> Top.entry]
    /\ stack' = SubSeq(stack, 1, Len(stack) - 1)
    /\ UNCHANGED <<host, current_class, errors, chain>>

EnterClass ==
    /\ Len(stack) < MaxDepth
    /\ stack # <<>>
    /\ LET class_ == NextClass(Top)
           fmi == FixMissingImports_handle_class_enter(class_, current_class)
       IN  /\ stack' = Append(stack, [kind |-> "class", class_ |-> class_,
                                      path |-> Top.path,
                                      old_class |-> fmi.old_class,
                                      entry |-> Context])
           /\ current_class' = fmi.current_class
           /\ call' = [op |-> "enter_class", class_ |-> class_]
    /\ UNCHANGED <<host, extra_imports, current_module, strip_module,
                   errors, finished, chain>>

ExitClass ==
    /\ stack # <<>>
    /\ Top.kind = "class"
    /\ current_class' = FixMissingImports_handle_class_exit(Top)
    /\ call' = [op |-> "handle_class", class_ |-> Top.class_, entry |-> Top.entry]
    /\ stack' = SubSeq(stack, 1, Len(stack) - 1)
    /\ UNCHANGED <<host, extra_imports, current_module, strip_module,
                   errors, finished, chain>>

\* The innermost open handle_module call.
ModuleFrame == CHOOSE i \in 1..Len(stack) :
                   stack[i].kind = "module"
                   /\ \A j \in (i + 1)..Len(stack) : stack[j].kind # "module"

\* handle_import of a module member, which the innermost pass then adds to
\* the imports of the Module it is building.
ScopeHandleImport ==
    /\ stack # <<>>
    /\ Top.kind = "module"
    /\ \E inner \in {NoneV, Import([kind |-> "Identifier", id |-> id_x], <<id_a, id_x>>)} :
           LET r == FixMissingImports_handle_import(inner, errors, extra_imports)
               got == IF r.result = NoneV THEN {} ELSE {r.result}
           IN  /\ extra_imports' = r.extra_imports
               /\ stack' = [stack EXCEPT ![Len(stack)] =
                               [@ EXCEPT !.inner_imports = @ \cup got,
                                         !.registered = @ \cup got]]
               /\ call' = [op |-> "handle_import", result |-> r.result]
    /\ UNCHANGED <<host, current_module, current_class, strip_module,
                   errors, finished, chain>>

\* FixMissingImports.handle_type on the type of a member of the open module
\* or class.
ScopeHandleType ==
    /\ stack # <<>>
    /\ Len(errors) < MaxErrors
    /\ \E name \in ScopeNames :
           LET r == FixMissingImports_handle_type(name, errors, extra_imports)
           IN  /\ extra_imports' = r.extra_imports
               /\ errors' = r.errors
               /\ stack' = [stack EXCEPT ![ModuleFrame] =
                               [@ EXCEPT !.registered =
                                   @ \cup _add_import(name, <<>>, {}).extra_imports]]
               /\ call' = [op |-> "handle_type", name |-> name, result |-> r.result]
    /\ UNCHANGED <<host, current_module, current_class, strip_module,
                   finished, chain>>

\* FixCurrentModulePrefixInTypeNames.handle_type on the type of a member.
ScopeStripType ==
    /\ stack # <<>>
    /\ \E name \in StripNames :
           call' = [op |-> "strip_type", name |-> name,
                    result |-> FixCurrentModulePrefixInTypeNames_handle_type(name)]
    /\ UNCHANGED <<host, extra_imports, current_module, current_class,
                   strip_module, errors, stack, finished, chain>>

NextScope ==
    \/ EnterModule
    \/ ExitModule
    \/ EnterClass
    \/ ExitClass
    \/ ScopeHandleImport
    \/ ScopeHandleType
    \/ ScopeStripType

SpecScope == InitScope /\ [][NextScope]_vars

\* ------------------------------------------------------------------ claims C4-C5

\* C4: the import set of every finished module holds exactly the imports
\* registered while that module was the innermost one being processed: none
\* of its own is lost, and none registered in a sub-module or in its parent
\* appears in it unless it registered the same import itself.
C4_ImportsStayInTheirModule ==
    \A f \in finished :
        f.result # NoneV =>
            /\ f.registered \subseteq f.result.imports
            /\ \A i \in f.result.imports : i \in f.registered

\* C4's case: a module and its sub-module have both finished, each with an
\* import the other does not have.
C4_Witness ==
    \E p \in finished : \E q \in finished :
        /\ q.path = Append(p.path, id_s)
        /\ p.result # NoneV
        /\ q.result # NoneV
        /\ p.result.imports \ q.result.imports # {}
        /\ q.result.imports \ p.result.imports # {}

\* The context the open calls determine: the innermost open module and, when
\* a class is being visited, that class.
ScopeContext ==
    IF stack = <<>> THEN [module |-> NoneV, class |-> NoneV, strip |-> <<>>]
    ELSE [module |-> Obj(QualifiedName_str(stack[ModuleFrame].path)),
          class  |-> IF Top.kind = "class" THEN Top.class_ ELSE NoneV,
          strip  |-> stack[ModuleFrame].path]

\* C5: when handle_module or handle_class returns (nested or not, with or
\* without a declaration), the current module and class of FixMissingImports
\* and the current module of FixCurrentModulePrefixInTypeNames are what they
\* were just before the call; so the context always is that of the innermost
\* open scope, and a member visited after a nested scope returned is stripped
\* against the outer module.
C5_ContextRestored ==
    /\ call.op \in {"handle_module", "handle_class"} => Context = call.entry
    /\ Context = ScopeContext
    /\ call.op = "strip_type" =>
           call.result = Some(IF Take(call.name, Len(ScopeContext.strip)) = ScopeContext.strip
                                THEN Drop(call.name, Len(ScopeContext.strip))
                                ELSE call.name)

\* C5's case: a class nested in another class has returned, inside a module
\* whose sub-module has already returned without a declaration.
C5_Witness ==
    /\ call.op = "handle_class"
    /\ current_class # NoneV
    /\ current_class # call.class_
    /\ \E f \in finished : f.path = Append(strip_module, id_s) /\ f.result = NoneV

\* ------------------------------------------------------------------ int and repr

Raised(exc) == [kind |-> "Raised", exc |-> exc]

\* s.strip() for spaces.
RECURSIVE Strip(_)
Strip(s) ==
    IF Len(s) > 0 /\ s[1] = " " THEN Strip(Tail(s))
    ELSE IF Len(s) > 0 /\ s[Len(s)] = " " THEN Strip(Take(s, Len(s) - 1))
    ELSE s

DigitValue(c) == (CHOOSE i \in 1..Len(Digits) : Digits[i] = c) - 1

IsDigit(c) == \E i \in 1..Len(Digits) : Digits[i] = c

\* Whether int(s) succeeds: optional spaces, an optional "-", then digits.
IntParses(s) ==
    LET t == Strip(s)
        u == IF Len(t) > 0 /\ t[1] = "-" THEN Tail(t) ELSE t
    IN  Len(u) > 0 /\ \A i \in 1..Len(u) : IsDigit(u[i])

RECURSIVE DigitsToNat(_)
DigitsToNat(u) ==
    IF Len(u) = 0 THEN 0
    ELSE DigitsToNat(Take(u, Len(u) - 1)) * Len(Digits) + DigitValue(u[Len(u)])

\* int(s) where it succeeds.
ParseInt(s) ==
    LET t == Strip(s)
    IN  IF t[1] = "-" THEN 0 - DigitsToNat(Tail(t)) ELSE DigitsToNat(t)

RECURSIVE NatToStr(_)
NatToStr(n) ==
    IF n < Len(Digits) THEN <<Digits[n + 1]>>
    ELSE NatToStr(n \div Len(Digits)) \o <<Digits[(n % Len(Digits)) + 1]>>

\* str(d) of an int.
IntToStr(d) == IF d < 0 THEN <<"-">> \o NatToStr(0 - d) ELSE NatToStr(d)

FixedSizeName == <<id_pybind11_stubgen, id_typing_ext, id_FixedSize>>

\* FixedSize.__repr__: module, ".", qualified class name, "(", dims joined by ", ", ")".
FixedSize_repr(dim) ==
    QualifiedName_str(<<id_pybind11_stubgen, id_typing_ext>>) \o <<".">> \o id_FixedSize
        \o <<"(">> \o Join([i \in 1..Len(dim) |-> IntToStr(dim[i])], <<",", " ">>) \o <<")">>

\* handle_value of a FixedSize: the Value of its repr.
handle_value_FixedSize(dim) == Value(FixedSize_repr(dim))

\* ------------------------------------------------------------------ annotation passes
\* Each parse_annotation_str takes what super() returned and the resolver
\* state, and returns its result with the resolver state after it.  An
\* exception leaving the hook is the result Raised(.).

Pure(result, errs, imps) == Returned(result, Unchanged(errs, imps))

\* self.handle_type(FixedSize) dispatched through the passes of `chain` from
\* the innermost out: the prefix-stripping pass rewrites the name, the
\* import pass resolves the name it is handed.
RECURSIVE handle_type_chain(_, _, _, _)
handle_type_chain(i, name, errs, imps) ==
    IF i > Len(chain) THEN Returned(Some(name), Unchanged(errs, imps))
    ELSE IF chain[i] = "FixCurrentModulePrefixInTypeNames"
      THEN handle_type_chain(i + 1, _strip_current_module(name), errs, imps)
    ELSE IF chain[i] = "FixMissingImports"
      THEN LET r == FixMissingImports_handle_type(name, errs, imps)
           IN  handle_type_chain(i + 1, name, r.errors, r.extra_imports)
    ELSE handle_type_chain(i + 1, name, errs, imps)

FixTypingTypeNames_typing_names ==
    { <<"A","n","n","o","t","a","t","e","d">>,
      <<"C","a","l","l","a","b","l","e">>,
      <<"D","i","c","t">>,
      <<"I","t","e","r","a","t","o","r">>,
      <<"I","t","e","m","s","V","i","e","w">>,
      <<"I","t","e","r","a","b","l","e">>,
      <<"K","e","y","s","V","i","e","w">>,
      <<"L","i","s","t">>,
      <<"O","p","t","i","o","n","a","l">>,
      <<"S","e","t">>,
      <<"S","e","q","u","e","n","c","e">>,
      <<"T","u","p","l","e">>,
      <<"U","n","i","o","n">>,
      <<"V","a","l","u","e","s","V","i","e","w">>,
      <<"i","t","e","r","a","t","o","r">>,
      <<"i","t","e","r","a","b","l","e">>,
      <<"s","e","q","u","e","n","c","e">> }

\* word[0].upper() + word[1:]
Capitalised(word) == <<Upper(word[1])>> \o Tail(word)

\* The rewrite applied to the last segment, keeping the qualifier.
FixTypingTypeNames_parse_annotation_str_last(result, errs, imps) ==
    IF result.kind # "ResolvedType" THEN Pure(result, errs, imps)
    ELSE IF Len(result.name) = 0 THEN Pure(Raised("AssertionError"), errs, imps)
    ELSE LET word == result.name[Len(result.name)]
         IN  IF word \in FixTypingTypeNames_typing_names
               THEN Pure([result EXCEPT !.name =
                            <<id_typing>> \o Take(result.name, Len(result.name) - 1)
                                \o <<Capitalised(word)>>], errs, imps)
               ELSE Pure(result, errs, imps)

FixTypingTypeNames_parse_annotation_str(result, errs, imps) ==
    IF result.kind # "ResolvedType" THEN Pure(result, errs, imps)
    ELSE IF Len(result.name) = 0 THEN Pure(Raised("AssertionError"), errs, imps)
    ELSE LET word == result.name[1]
         IN  IF word \in FixTypingTypeNames_typing_names
               THEN Pure([result EXCEPT !.name =
                            QualifiedName_from_str(id_typing \o <<".">> \o Capitalised(word))],
                         errs, imps)
               ELSE Pure(result, errs, imps)

FixTypingExtTypeNames_typing_names == {id_buffer}

FixTypingExtTypeNames_parse_annotation_str(result, errs, imps) ==
    IF result.kind # "ResolvedType" THEN Pure(result, errs, imps)
    ELSE IF Len(result.name) = 0 THEN Pure(Raised("AssertionError"), errs, imps)
    ELSE LET word == result.name[1]
         IN  IF word \in FixTypingExtTypeNames_typing_names /\ result.parameters = NoneV
               THEN Pure([result EXCEPT !.name =
                            QualifiedName_from_str(id_typing_extensions \o <<".">>
                                                       \o Capitalised(word))],
                         errs, imps)
               ELSE Pure(result, errs, imps)

FixCurrentModulePrefixInTypeNames_parse_annotation_str(result, errs, imps) ==
    IF result.kind = "ResolvedType"
      THEN Pure([result EXCEPT !.name = _strip_current_module(result.name)], errs, imps)
      ELSE Pure(result, errs, imps)

ndarray_name == <<id_numpy, id_ndarray>>

annotated_name == <<id_typing, <<"A","n","n","o","t","a","t","e","d">>>>

numpy_primitive_types ==
    { <<id_numpy, <<"i","n","t","8">>>>,
      <<id_numpy, <<"i","n","t","1","6">>>>,
      <<id_numpy, <<"i","n","t","3","2">>>>,
      <<id_numpy, <<"i","n","t","6","4">>>>,
      <<id_numpy, <<"f","l","o","a","t","1","6">>>>,
      <<id_numpy, <<"f","l","o","a","t","3","2">>>>,
      <<id_numpy, <<"f","l","o","a","t","6","4">>>>,
      <<id_numpy, <<"c","o","m","p","l","e","x","3","2">>>>,
      <<id_numpy, <<"c","o","m","p","l","e","x","6","4">>>>,
      <<id_numpy, <<"l","o","n","g","c","o","m","p","l","e","x">>>> }

\* The guard of FixNumpyArrayDimAnnotation: numpy.ndarray[PRIMITIVE_TYPE[*DIMS]].
IsArrayWithDims(result) ==
    /\ result.kind = "ResolvedType"
    /\ result.name = ndarray_name
    /\ result.parameters # NoneV
    /\ Len(result.parameters.items) = 1
    /\ result.parameters.items[1].kind = "ResolvedType"
    /\ result.parameters.items[1].name \in numpy_primitive_types
    /\ result.parameters.items[1].parameters # NoneV
    /\ \A i \in 1..Len(result.parameters.items[1].parameters.items) :
           result.parameters.items[1].parameters.items[i].kind = "Value"

FixNumpyArrayDimAnnotation_parse_annotation_str(result, errs, imps) ==
    IF ~IsArrayWithDims(result) THEN Pure(result, errs, imps)
    ELSE LET param == result.parameters.items[1]
             dims == param.parameters.items
         IN  IF \E i \in 1..Len(dims) : ~IntParses(dims[i].repr)
               THEN Pure(Raised("ValueError"), errs, imps)
               ELSE LET r == handle_type_chain(1, FixedSizeName, errs, imps)
                        size == handle_value_FixedSize(
                                    [i \in 1..Len(dims) |-> ParseInt(dims[i].repr)])
                    IN  Returned(ResolvedType(annotated_name,
                                     List(<<ResolvedType(ndarray_name, NoneV),
                                            ResolvedType(param.name, NoneV),
                                            size>>)),
                                 r)

FixNumpyArrayRemoveParameters_parse_annotation_str(result, errs, imps) ==
    IF result.kind = "ResolvedType" /\ result.name = ndarray_name
      THEN Pure([result EXCEPT !.parameters = NoneV], errs, imps)
      ELSE Pure(result, errs, imps)

FixedSizeOpen == id_FixedSize \o <<"(">>

\* map() is lazy: no int() runs inside the try, so the else branch is always
\* taken; the parts are converted when FixedSize(*dimensions) unpacks them,
\* after handle_type(FixedSize) ran.
FixMissingFixedSizeImport_parse_annotation_str(result, errs, imps) ==
    IF /\ result.kind = "Value"
       /\ StartsWith(result.repr, FixedSizeOpen)
       /\ EndsWith(result.repr, <<")">>)
      THEN LET parts == Split(Take(Drop(result.repr, Len(FixedSizeOpen)),
                                   Len(result.repr) - Len(FixedSizeOpen) - 1), ",")
               r == handle_type_chain(1, FixedSizeName, errs, imps)
           IN  IF \E i \in 1..Len(parts) : ~IntParses(parts[i])
                 THEN Returned(Raised("ValueError"), r)
                 ELSE Returned(handle_value_FixedSize(
                                   [i \in 1..Len(parts) |-> ParseInt(parts[i])]), r)
      ELSE Pure(result, errs, imps)

\* ------------------------------------------------------------------ annotation runs
\* One parse_annotation_str call through a chain of passes: the innermost
\* parser returns `inner`, then each pass of `chain` post-processes the
\* result of the one beneath it.

Passes ==
    {"FixMissingImports", "FixTypingTypeNames", "FixTypingExtTypeNames",
     "FixCurrentModulePrefixInTypeNames", "FixNumpyArrayDimAnnotation",
     "FixNumpyArrayRemoveParameters", "FixMissingFixedSizeImport"}

Chains ==
    {c \in SeqsUpTo(Passes, MaxChain) :
        Len(c) > 0 /\ \A i \in 1..Len(c) : \A j \in 1..Len(c) : c[i] = c[j] => i = j}

AnnHost ==
    [builtins |-> {id_int, id_list},
     modules  |-> [s \in {QualifiedName_str(<<id_a>>), id_typing, id_pybind11_stubgen,
                          QualifiedName_str(<<id_pybind11_stubgen, id_typing_ext>>)} |->
                      IF s = QualifiedName_str(<<id_a>>) THEN <<"mod_a">>
                      ELSE IF s = id_typing THEN <<"mod_typing">>
                      ELSE IF s = id_pybind11_stubgen THEN <<"mod_pybind11_stubgen">>
                      ELSE <<"mod_typing_ext">>],
     attrs    |-> [p \in {<<<<"mod_a">>, id_c>>, <<<<"mod_typing">>, id_List>>,
                          <<<<"mod_typing">>, id_Iterator>>,
                          <<<<"mod_pybind11_stubgen">>, id_typing_ext>>,
                          <<<<"mod_typing_ext">>, id_FixedSize>>} |->
                      IF p[2] = id_typing_ext THEN <<"mod_typing_ext">> ELSE <<"leaf">>]]

float32_of(dims) == ResolvedType(<<id_numpy, id_float32>>, List(dims))

AnnSamples ==
    { InvalidExpression(<<"(">>),
      InvalidExpression(FixedSizeOpen \o <<"3", ")">>),
      Value(<<"1">>),
      Value(FixedSizeOpen \o <<"3", ",", " ", "3", ")">>),
      Value(FixedSizeOpen \o <<"3", ",", " ", "x", ")">>),
      Value(FixedSizeOpen \o <<")">>),
      ResolvedType(<<id_List>>, NoneV),
      ResolvedType(<<id_List>>, List(<<ResolvedType(<<id_int>>, NoneV)>>)),
      ResolvedType(<<id_List, id_x>>, NoneV),
      ResolvedType(<<id_list>>, NoneV),
      ResolvedType(<<id_iterator>>, List(<<ResolvedType(<<id_int>>, NoneV)>>)),
      ResolvedType(<<id_typing, id_List>>, NoneV),
      ResolvedType(<<id_typing, id_iterator>>, List(<<Value(<<"1">>)>>)),
      ResolvedType(<<id_buffer>>, NoneV),
      ResolvedType(<<id_buffer>>, List(<<ResolvedType(<<id_int>>, NoneV)>>)),
      ResolvedType(<<id_m, id_List>>, NoneV),
      ResolvedType(<<id_m>>, NoneV),
      ResolvedType(<<id_a, id_c>>, NoneV),
      ResolvedType(<<id_c, id_c>>, NoneV),
      ResolvedType(ndarray_name, NoneV),
      ResolvedType(ndarray_name, List(<<float32_of(<<Value(<<"3">>), Value(<<"1", "0">>)>>)>>)),
      ResolvedType(ndarray_name, List(<<float32_of(<<Value(<<"3">>), Value(<<"n">>)>>)>>)),
      ResolvedType(ndarray_name,
                   List(<<float32_of(<<ResolvedType(<<id_m>>, NoneV),
                                       ResolvedType(<<id_n>>, NoneV)>>)>>)) }

InitAnn ==
    /\ host = AnnHost
    /\ current_module = NoneV
    /\ current_class = NoneV
    /\ extra_imports = {}
    /\ errors = <<>>
    /\ strip_module = <<id_m>>
    /\ stack = <<>>
    /\ finished = {}
    /\ chain \in Chains
    /\ \E inner \in AnnSamples :
           call = [op |-> "chain", inner |-> inner, prev |-> inner,
                   result |-> inner, pos |-> 0]

\* The next pass of the chain is `pass`; no exception is propagating.
NextPassIs(pass) ==
    /\ call.op = "chain"
    /\ call.pos < Len(chain)
    /\ chain[call.pos + 1] = pass
    /\ call.result.kind # "Raised"

Applied(r) ==
    /\ errors' = r.errors
    /\ extra_imports' = r.extra_imports
    /\ call' = [call EXCEPT !.prev = call.result, !.result = r.result, !.pos = @ + 1]
    /\ UNCHANGED <<host, current_module, current_class, strip_module,
                   stack, finished, chain>>

ApplyFixMissingImports ==
    /\ NextPassIs("FixMissingImports")
    /\ Applied(FixMissingImports_parse_annotation_str(call.result, errors, extra_imports))

ApplyFixTypingTypeNames ==
    /\ NextPassIs("FixTypingTypeNames")
    /\ Applied(FixTypingTypeNames_parse_annotation_str(call.result, errors, extra_imports))

ApplyFixTypingExtTypeNames ==
    /\ NextPassIs("FixTypingExtTypeNames")
    /\ Applied(FixTypingExtTypeNames_parse_annotation_str(call.result, errors, extra_imports))

ApplyFixCurrentModulePrefixInTypeNames ==
    /\ NextPassIs("FixCurrentModulePrefixInTypeNames")
    /\ Applied(FixCurrentModulePrefixInTypeNames_parse_annotation_str(
                   call.result, errors, extra_imports))

ApplyFixNumpyArrayDimAnnotation ==
    /\ NextPassIs("FixNumpyArrayDimAnnotation")
    /\ Applied(FixNumpyArrayDimAnnotation_parse_annotation_str(
                   call.result, errors, extra_imports))

ApplyFixNumpyArrayRemoveParameters ==
    /\ NextPassIs("FixNumpyArrayRemoveParameters")
    /\ Applied(FixNumpyArrayRemoveParameters_parse_annotation_str(
                   call.result, errors, extra_imports))

ApplyFixMissingFixedSizeImport ==
    /\ NextPassIs("FixMissingFixedSizeImport")
    /\ Applied(FixMissingFixedSizeImport_parse_annotation_str(
                   call.result, errors, extra_imports))

NextAnn ==
    \/ ApplyFixMissingImports
    \/ ApplyFixTypingTypeNames
    \/ ApplyFixTypingExtTypeNames
    \/ ApplyFixCurrentModulePrefixInTypeNames
    \/ ApplyFixNumpyArrayDimAnnotation
    \/ ApplyFixNumpyArrayRemoveParameters
    \/ ApplyFixMissingFixedSizeImport

SpecAnn == InitAnn /\ [][NextAnn]_vars

\* ------------------------------------------------------------------ claims C7-C8

\* C7: when the innermost parser returns an InvalidExpression, every chain
\* of the passes that override parse_annotation_str, in any order, returns
\* that InvalidExpression unchanged, registers no import and reports no
\* diagnostic.
C7_InvalidExpressionUnchanged ==
    (call.op = "chain" /\ call.inner.kind = "InvalidExpression") =>
        /\ call.result = call.inner
        /\ errors = <<>>
        /\ extra_imports = {}

\* C7's case: a whole chain of at least two passes, FixMissingImports and
\* FixMissingFixedSizeImport among them, has run on an InvalidExpression
\* whose text looks like a FixedSize literal.
C7_Witness ==
    /\ call.op = "chain"
    /\ call.inner.kind = "InvalidExpression"
    /\ StartsWith(call.inner.text, FixedSizeOpen)
    /\ call.pos = Len(chain)
    /\ \E i \in 1..Len(chain) : chain[i] = "FixMissingImports"
    /\ \E i \in 1..Len(chain) : chain[i] = "FixMissingFixedSizeImport"

\* FixTypingTypeNames has just returned a ResolvedType.
AfterFixTypingTypeNames ==
    /\ call.op = "chain"
    /\ call.pos >= 1
    /\ chain[call.pos] = "FixTypingTypeNames"
    /\ call.result.kind = "ResolvedType"

\* C8: the rewrite of FixTypingTypeNames.parse_annotation_str is idempotent:
\* applied to its own result it changes neither the name nor the parameters,
\* and a name whose head is already `typing` is returned as it came.
C8_RewriteIdempotent ==
    AfterFixTypingTypeNames =>
        LET again == FixTypingTypeNames_parse_annotation_str(
                         call.result, errors, extra_imports).result
        IN  /\ again.kind = "ResolvedType"
            /\ again.name = call.result.name
            /\ again.parameters = call.result.parameters
            /\ call.prev.name[1] = id_typing => call.result = call.prev

\* C8's case: the pass has rewritten the lower-case shorthand `iterator` of
\* a parameterised type to typing.Iterator.
C8_Witness ==
    /\ AfterFixTypingTypeNames
    /\ call.prev.name = <<id_iterator>>
    /\ call.result.name = <<id_typing, id_Iterator>>

\* ------------------------------------------------------------------ declaration passes

Identifier(id) == [kind |-> "Identifier", id |-> id]

Argument(name, annotation) == [name |-> name, annotation |-> annotation]

Function(name, args, returns) ==
    [kind |-> "Function", name |-> name, args |-> args, returns |-> returns]

Method(function) == [kind |-> "Method", function |-> function]

Property(name, getter, setter) ==
    [kind |-> "Property", name |-> name, getter |-> getter, setter |-> setter]

Field(attribute, modifier) ==
    [kind |-> "Field", attribute |-> attribute, modifier |-> modifier]

Class(name) == [kind |-> "Class", name |-> name]

DeclModule(classes, attributes, functions, aliases, imports, sub_modules) ==
    [kind |-> "Module", classes |-> classes, attributes |-> attributes,
     functions |-> functions, aliases |-> aliases, imports |-> imports,
     sub_modules |-> sub_modules]

\* _remove_self_arg_annotation that clears the first annotation whatever the
\* argument is called.
_remove_first_arg_annotation(func) ==
    IF Len(func.args) > 0
      THEN [func EXCEPT !.args[1].annotation = NoneV]
      ELSE func

\* RemoveSelfAnnotation._remove_self_arg_annotation: the function after the call.
_remove_self_arg_annotation(func) ==
    IF Len(func.args) > 0 /\ func.args[1].name = id_self
      THEN [func EXCEPT !.args[1].annotation = NoneV]
      ELSE func

\* RemoveSelfAnnotation.handle_method; `methods` is what super() returned.
RemoveSelfAnnotation_handle_method(methods) ==
    List([i \in 1..Len(methods.items) |->
            [methods.items[i] EXCEPT
                !.function = _remove_self_arg_annotation(methods.items[i].function)]])

\* RemoveSelfAnnotation.handle_property; `prop` is what super() returned.
RemoveSelfAnnotation_handle_property(prop) ==
    IF prop = NoneV THEN NoneV
    ELSE LET with_getter ==
                 IF prop.getter # NoneV
                   THEN [prop EXCEPT !.getter = _remove_self_arg_annotation(prop.getter)]
                   ELSE prop
         IN  IF with_getter.setter # NoneV
               THEN [with_getter EXCEPT
                        !.setter = _remove_self_arg_annotation(with_getter.setter)]
               ELSE with_getter

\* handle_class_member that collapses without comparing the two types.
ReplaceReadWritePropertyWithField_handle_class_member_untyped(result) ==
    IF result.kind = "Property"
      THEN IF /\ result.getter # NoneV
              /\ result.setter # NoneV
              /\ Len(result.getter.args) = 1
              /\ Len(result.setter.args) = 2
             THEN Field(Attribute(result.name, NoneV, result.getter.returns), NoneV)
             ELSE result
      ELSE result

\* ReplaceReadWritePropertyWithField.handle_class_member; `result` is what
\* super() returned.
ReplaceReadWritePropertyWithField_handle_class_member(result) ==
    IF result.kind = "Property"
      THEN IF /\ result.getter # NoneV
              /\ result.setter # NoneV
              /\ Len(result.getter.args) = 1
              /\ Len(result.setter.args) = 2
              /\ result.getter.returns = result.setter.args[2].annotation
             THEN Field(Attribute(result.name, NoneV, result.getter.returns), NoneV)
             ELSE result
      ELSE result

\* sorted(.) of a set of str.
RECURSIVE sorted(_)
sorted(S) ==
    IF S = {} THEN <<>>
    ELSE LET least == CHOOSE x \in S : \A y \in S \ {x} : StrLess(x, y)
         IN  <<least>> \o sorted(S \ {least})

\* sorted(.) of a list of str, duplicates kept.
RECURSIVE sorted_list(_)
sorted_list(names) ==
    IF Len(names) = 0 THEN <<>>
    ELSE LET i == CHOOSE k \in 1..Len(names) :
                      \A j \in 1..Len(names) : ~StrLess(names[j], names[k])
         IN  <<names[i]>> \o sorted_list(Take(names, i - 1) \o Drop(names, i))

\* repr of a list of str: ['A', 'B'].
list_repr(names) ==
    <<"[">> \o Join([i \in 1..Len(names) |-> <<"'">> \o names[i] \o <<"'">>], <<",", " ">>)
        \o <<"]">>

\* handle_value of a list of str: the Value of its repr.
handle_value_list(names) == Value(list_repr(names))

\* The elements of a set, in some order.
RECURSIVE SetToSeq(_)
SetToSeq(S) ==
    IF S = {} THEN <<>>
    ELSE LET x == CHOOSE y \in S : TRUE IN <<x>> \o SetToSeq(S \ {x})

\* The names chained into all_names, before str, filter, set and sorted.
member_names(result) ==
    [i \in 1..Len(result.classes) |-> result.classes[i].name]
        \o [i \in 1..Len(result.attributes) |-> result.attributes[i].name]
        \o [i \in 1..Len(result.functions) |-> result.functions[i].name]
        \o SetToSeq({alias.name : alias \in result.aliases})
        \o SetToSeq({import_.name.id : import_ \in {i \in result.imports : i.name # NoneV}})
        \o [i \in 1..Len(result.sub_modules) |-> result.sub_modules[i].name]

\* filter(lambda name: not name.startswith("_"), .)
RECURSIVE filter_public(_)
filter_public(names) ==
    IF Len(names) = 0 THEN <<>>
    ELSE IF StartsWith(Head(names), <<"_">>) THEN filter_public(Tail(names))
    ELSE <<Head(names)>> \o filter_public(Tail(names))

has_all(result) ==
    \E i \in 1..Len(result.attributes) : result.attributes[i].name = id_all

\* handle_module that sorts the filtered names without set().
FixMissing__all__Attribute_handle_module_dup(result) ==
    IF result = NoneV THEN NoneV
    ELSE IF has_all(result) THEN result
    ELSE [result EXCEPT !.attributes =
             Append(@, Attribute(id_all,
                                 handle_value_list(
                                     sorted_list(filter_public(member_names(result)))),
                                 NoneV))]

\* FixMissing__all__Attribute.handle_module; `result` is what super() returned.
FixMissing__all__Attribute_handle_module(result) ==
    IF result = NoneV THEN NoneV
    ELSE IF has_all(result) THEN result
    ELSE LET names == filter_public(member_names(result))
             all_names == sorted({names[i] : i \in 1..Len(names)})
         IN  [result EXCEPT !.attributes =
                 Append(@, Attribute(id_all, handle_value_list(all_names), NoneV))]

\* ------------------------------------------------------------------ declaration runs
\* One hook call of a declaration pass on what the pass beneath it returned.

ann_int == ResolvedType(<<id_int>>, NoneV)

ann_str == ResolvedType(<<id_str>>, NoneV)

FirstArguments ==
    {Argument(id_self, NoneV), Argument(id_self, ann_int), Argument(id_x, ann_int)}

LaterArguments ==
    {Argument(id_x, NoneV), Argument(id_x, ann_int), Argument(id_self, ann_str)}

\* The argument lists of at most n arguments.
RECURSIVE ArgLists(_)
ArgLists(n) ==
    IF n = 0 THEN {<<>>}
    ELSE LET shorter == ArgLists(n - 1)
         IN  shorter \cup {<<a>> : a \in FirstArguments}
                     \cup {Append(l, a) : l \in shorter \ {<<>>}, a \in LaterArguments}

Functions ==
    {Function(id_f, args, returns) :
        args \in ArgLists(MaxArgs), returns \in {NoneV, ann_int, ann_str}}

Properties ==
    {Property(id_x, getter, setter) :
        getter \in Functions \cup {NoneV}, setter \in Functions \cup {NoneV}}

MethodLists ==
    {List(<<>>)} \cup {List(<<Method(f)>>) : f \in Functions}
                 \cup {List(<<Method(f), Method(g)>>) : f \in Functions, g \in Functions}

Modules ==
    {DeclModule(classes, attributes, functions, aliases, imports, sub_modules) :
        classes \in {<<>>, <<Class(id_B), Class(id_A)>>, <<Class(id_A), Class(id_private)>>},
        attributes \in {<<>>,
                        <<Attribute(id_all, Value(<<"[", "]">>), NoneV)>>,
                        <<Attribute(id_x, NoneV, ann_int)>>,
                        <<Attribute(id_A, NoneV, NoneV)>>,
                        <<Attribute(id_x, NoneV, NoneV),
                          Attribute(id_all, Value(<<"[", "]">>), NoneV)>>},
        functions \in {<<>>, <<Function(id_f, <<>>, NoneV)>>,
                       <<Function(id_f, <<>>, NoneV),
                         Function(id_f, <<Argument(id_x, ann_int)>>, NoneV)>>,
                       <<Function(id_private, <<>>, NoneV)>>},
        aliases \in {{}, {Alias(id_y, <<id_a, id_c>>), Alias(id_Z, <<id_a, id_b>>)}},
        imports \in {{}, {Import(NoneV, <<id_a>>)},
                     {Import(Identifier(id_z), <<id_a, id_z>>),
                      Import(Identifier(id_impl), <<id_a, id_impl>>)}},
        sub_modules \in {<<>>, <<[kind |-> "Module", name |-> id_sub]>>,
                         <<[kind |-> "Module", name |-> id_impl],
                           [kind |-> "Module", name |-> id_a]>>}}

MemberSamples ==
    Properties \cup {NoneV, Field(Attribute(id_x, NoneV, ann_int), NoneV),
                     List(<<Method(Function(id_f, <<Argument(id_self, NoneV)>>, ann_int))>>)}

InitDecl ==
    /\ host = ScopeHost
    /\ current_module = NoneV
    /\ current_class = NoneV
    /\ extra_imports = {}
    /\ errors = <<>>
    /\ strip_module = <<>>
    /\ stack = <<>>
    /\ finished = {}
    /\ chain = <<>>
    /\ \E inner \in MemberSamples \cup MethodLists \cup Modules :
           call = [op |-> "super", inner |-> inner]

\* The frame of a declaration hook: only the record of the call changes.
DeclHook(op, result) ==
    /\ call' = [op |-> op, inner |-> call.inner, result |-> result]
    /\ UNCHANGED <<host, extra_imports, current_module, current_class,
                   strip_module, errors, stack, finished, chain>>

CallHandleClassMember ==
    /\ call.op = "super"
    /\ call.inner \in MemberSamples
    /\ DeclHook("handle_class_member",
                ReplaceReadWritePropertyWithField_handle_class_member(call.inner))

CallHandleMethod ==
    /\ call.op = "super"
    /\ call.inner.kind = "list"
    /\ DeclHook("handle_method", RemoveSelfAnnotation_handle_method(call.inner))

CallHandleProperty ==
    /\ call.op = "super"
    /\ call.inner.kind \in {"Property", "None"}
    /\ DeclHook("handle_property", RemoveSelfAnnotation_handle_property(call.inner))

CallHandleModule ==
    /\ call.op = "super"
    /\ call.inner.kind \in {"Module", "None"}
    /\ DeclHook("handle_module", FixMissing__all__Attribute_handle_module(call.inner))

NextDecl ==
    \/ CallHandleClassMember
    \/ CallHandleMethod
    \/ CallHandleProperty
    \/ CallHandleModule

SpecDecl == InitDecl /\ [][NextDecl]_vars

\* ------------------------------------------------------------------ claims C6, C9, C10

\* A read/write pair of matching shape and type.
Collapsible(member) ==
    /\ member.kind = "Property"
    /\ member.getter.kind = "Function"
    /\ member.setter.kind = "Function"
    /\ Len(member.getter.args) = 1
    /\ Len(member.setter.args) = 2
    /\ member.setter.args[2].annotation = member.getter.returns

\* C6: handle_class_member of ReplaceReadWritePropertyWithField returns a
\* Field exactly when the member is a Property with a getter of one
\* argument, a setter of two arguments and the getter's return annotation
\* equal to the annotation of the setter's second argument; the Field has the
\* property's name, the getter's return type, no value and no modifier.  Any
\* other member is returned unchanged.
C6_CollapseIffMatchingPair ==
    call.op = "handle_class_member" =>
        IF Collapsible(call.inner)
          THEN /\ call.result.kind = "Field"
               /\ call.result.modifier = NoneV
               /\ call.result.attribute.name = call.inner.name
               /\ call.result.attribute.annotation = call.inner.getter.returns
               /\ call.result.attribute.value = NoneV
          ELSE call.result = call.inner

\* C6's case: getter (self) -> int and setter (self, x: int) have collapsed
\* to a field of type int.
C6_Witness ==
    /\ call.op = "handle_class_member"
    /\ Collapsible(call.inner)
    /\ call.inner.getter.returns = ann_int
    /\ call.result = Field(Attribute(id_x, NoneV, ann_int), NoneV)

\* Every name of the module's classes, attributes, functions, aliases, named
\* imports and sub-modules.
NamesOf(module) ==
    {module.classes[i].name : i \in 1..Len(module.classes)}
        \cup {module.attributes[i].name : i \in 1..Len(module.attributes)}
        \cup {module.functions[i].name : i \in 1..Len(module.functions)}
        \cup {alias.name : alias \in module.aliases}
        \cup {import_.name.id : import_ \in {i \in module.imports : i.name.kind = "Identifier"}}
        \cup {module.sub_modules[i].name : i \in 1..Len(module.sub_modules)}

PublicNamesOf(module) == {n \in NamesOf(module) : Len(n) = 0 \/ n[1] # "_"}

\* The elements of a set of str in ascending order, each once.
Ascending(S) ==
    [i \in 1..Cardinality(S) |->
        CHOOSE x \in S : Cardinality({y \in S : StrLess(y, x)}) = i - 1]

\* C9: handle_module of FixMissing__all__Attribute on a module without an
\* __all__ attribute appends exactly one, whose value is the ascending,
\* duplicate-free list of the names not starting with an underscore among the
\* module's classes, attributes, functions, aliases, named imports and
\* sub-modules, and changes nothing else; a module that has an __all__
\* attribute is returned unchanged.
C9_AllSynthesised ==
    (call.op = "handle_module" /\ call.inner.kind = "Module") =>
        IF \E i \in 1..Len(call.inner.attributes) : call.inner.attributes[i].name = id_all
          THEN call.result = call.inner
          ELSE /\ call.result =
                      [call.inner EXCEPT !.attributes = call.result.attributes]
               /\ Len(call.result.attributes) = Len(call.inner.attributes) + 1
               /\ Take(call.result.attributes, Len(call.inner.attributes))
                      = call.inner.attributes
               /\ LET added == call.result.attributes[Len(call.result.attributes)]
                  IN  /\ added.name = id_all
                      /\ added.value = Value(list_repr(Ascending(PublicNamesOf(call.inner))))

\* C9's case: classes B, A and function f alone have given ['A', 'B', 'f'].
C9_Witness ==
    /\ call.op = "handle_module"
    /\ call.inner = DeclModule(<<Class(id_B), Class(id_A)>>, <<>>,
                               <<Function(id_f, <<>>, NoneV)>>, {}, {}, <<>>)
    /\ call.result.attributes =
           <<Attribute(id_all, Value(<<"[","'","A","'",","," ","'","B","'",","," ","'","f","'","]">>), NoneV)>>

\* What RemoveSelfAnnotation may do to one function: clear the annotation
\* of a first argument named self, and nothing else.
OnlySelfCleared(before, after) ==
    /\ after.kind = before.kind
    /\ after.name = before.name
    /\ after.returns = before.returns
    /\ Len(after.args) = Len(before.args)
    /\ \A i \in 1..Len(before.args) :
           /\ after.args[i].name = before.args[i].name
           /\ after.args[i].annotation =
                  IF i = 1 /\ before.args[i].name = id_self
                    THEN NoneV ELSE before.args[i].annotation

OptionalOnlySelfCleared(before, after) ==
    IF before = NoneV THEN after = NoneV
    ELSE after # NoneV /\ OnlySelfCleared(before, after)

\* C10: handle_method and handle_property of RemoveSelfAnnotation keep the
\* number, order and names of the arguments, the annotations of the
\* arguments after the first and the return annotation of every function;
\* they clear the annotation of the first argument when it is named self and
\* leave a function without arguments, or whose first argument is not self,
\* unchanged.
C10_OnlySelfAnnotationCleared ==
    /\ call.op = "handle_method" =>
           /\ Len(call.result.items) = Len(call.inner.items)
           /\ \A i \in 1..Len(call.inner.items) :
                  /\ call.result.items[i].kind = "Method"
                  /\ OnlySelfCleared(call.inner.items[i].function,
                                     call.result.items[i].function)
                  /\ (Len(call.inner.items[i].function.args) = 0
                        \/ call.inner.items[i].function.args[1].name # id_self)
                       => call.result.items[i] = call.inner.items[i]
    /\ call.op = "handle_property" =>
           IF call.inner = NoneV THEN call.result = NoneV
           ELSE /\ call.result.kind = "Property"
                /\ call.result.name = call.inner.name
                /\ OptionalOnlySelfCleared(call.inner.getter, call.result.getter)
                /\ OptionalOnlySelfCleared(call.inner.setter, call.result.setter)

\* C10's case: a property whose getter is (self: int) and whose setter is
\* (x: int, self: str) has lost the getter's annotation only.
C10_Witness ==
    /\ call.op = "handle_property"
    /\ call.inner.kind = "Property"
    /\ call.inner.getter.kind = "Function"
    /\ call.inner.setter.kind = "Function"
    /\ call.inner.getter.args = <<Argument(id_self, ann_int)>>
    /\ call.inner.setter.args = <<Argument(id_x, ann_int), Argument(id_self, ann_str)>>
    /\ call.result.getter.args = <<Argument(id_self, NoneV)>>
    /\ call.result.setter = call.inner.setter

\* ------------------------------------------------------------------ claim C11

\* FixMissingFixedSizeImport has just run as the last applied pass.
AfterFixMissingFixedSizeImport ==
    /\ call.op = "chain"
    /\ call.pos >= 1
    /\ chain[call.pos] = "FixMissingFixedSizeImport"

\* The comma-separated parts between "FixedSize(" and ")".
FixedSizeParts(repr) ==
    Split(Take(Drop(repr, Len(FixedSizeOpen)), Len(repr) - Len(FixedSizeOpen) - 1), ",")

\* A Value whose repr has the FixedSize(...) shape.
FixedSizeShaped(v) ==
    /\ v.kind = "Value"
    /\ StartsWith(v.repr, FixedSizeOpen)
    /\ EndsWith(v.repr, <<")">>)

\* ... and at least one part of which int() rejects.
FixedSizeMismatch(v) ==
    /\ FixedSizeShaped(v)
    /\ \E i \in 1..Len(FixedSizeParts(v.repr)) : ~IntParses(FixedSizeParts(v.repr)[i])

\* The import that handle_type(FixedSize) registers through FixMissingImports.
FixedSizeImport == Import(NoneV, <<id_pybind11_stubgen, id_typing_ext>>)

\* C11: FixMissingFixedSizeImport.parse_annotation_str is pass-through on
\* mismatch: for a Value shaped FixedSize(...) whose parts are not all
\* integers it returns the inner result unchanged, lets no exception escape
\* and registers no FixedSize import; the import is registered only when all
\* parts are integers.
C11_MismatchPassesThrough ==
    (AfterFixMissingFixedSizeImport /\ FixedSizeMismatch(call.prev)) =>
        /\ call.result.kind # "Raised"
        /\ call.result = call.prev
        /\ FixedSizeImport \notin extra_imports

\* What the pass does on a mismatch: handle_type(FixedSize) has run, so the
\* import is there whenever FixMissingImports is in the chain, and the
\* ValueError of the late int() leaves the hook.
C11_MismatchRaises ==
    (AfterFixMissingFixedSizeImport /\ FixedSizeMismatch(call.prev)) =>
        /\ call.result = Raised("ValueError")
        /\ (\E i \in 1..Len(chain) : chain[i] = "FixMissingImports")
               => FixedSizeImport \in extra_imports

\* The matching case: all parts are integers, the FixedSize value is
\* returned and the import is registered when FixMissingImports is chained.
C11_MatchReturnsFixedSize ==
    (AfterFixMissingFixedSizeImport /\ FixedSizeShaped(call.prev)
         /\ ~FixedSizeMismatch(call.prev)) =>
        /\ call.result =
               handle_value_FixedSize(
                   [i \in 1..Len(FixedSizeParts(call.prev.repr)) |->
                        ParseInt(FixedSizeParts(call.prev.repr)[i])])
        /\ (\E i \in 1..Len(chain) : chain[i] = "FixMissingImports")
               => FixedSizeImport \in extra_imports

\* C11's case: the pass met FixedSize(3, x) in a chain that also holds
\* FixMissingImports.
C11_MismatchReached ==
    /\ AfterFixMissingFixedSizeImport
    /\ call.prev = Value(FixedSizeOpen \o <<"3", ",", " ", "x", ")">>)
    /\ \E i \in 1..Len(chain) : chain[i] = "FixMissingImports"

\* The matching case is reached as well: FixedSize(3, 3).
C11_MatchReached ==
    /\ AfterFixMissingFixedSizeImport
    /\ call.prev = Value(FixedSizeOpen \o <<"3", ",", " ", "3", ")">>)
    /\ FixedSizeImport \in extra_imports

====
